---- MODULE Spec2Model ----
(***************************************************************************)
(* Model of snowflake_growth.py: diffusion-limited crystal growth on a     *)
(* hexagonal lattice.  Cell quantities (b, c, d) are exact rationals,      *)
(* written <<numerator, denominator>> in lowest terms with denominator>0.  *)
(***************************************************************************)
EXTENDS Integers, Sequences, FiniteSets, TLC

VARIABLES
    conf,             \* module-level configuration: DIMENSION, APPROXIMATION, ALPHA, ...
    args,             \* arguments of model_snowflake: number, dim, init_pos
    pc,               \* position in model_snowflake / in the per-cell driver
    plate,            \* the lattice: coordinate -> cell
    init_pos,         \* local init_pos after line 351-352
    cells_at_border,  \* the frontier set
    max_point,        \* largest row/column distance of an attached cell from init_pos
    i,                \* loop index of `for i in range(number)`
    changes_to_make,  \* staged attachments of the current pass, in insertion order
    todo,             \* frontier cells the current `for cell in cells_at_border` has not visited yet
    saved,            \* iteration indexes savestates was called with, in call order
    di,               \* per-cell driver: the cell handed to freezing/attachment/melting
    neighbours,       \* per-cell driver: the neighbour cells handed to attachment
    new_cell,         \* per-cell driver: result of attachment (None or the attached cell)
    result            \* function drivers: value returned by get_neighbours / is_border_correct

vars == <<conf, args, pc, plate, init_pos, cells_at_border, max_point, i,
          changes_to_make, todo, saved, di, neighbours, new_cell, result>>

runVars == <<plate, init_pos, cells_at_border, max_point, i, changes_to_make, todo, saved>>
cellVars == <<di, neighbours, new_cell>>

\* nothing returned yet
NoResult == <<"none">>

----------------------------------------------------------------------------
(* Bounds of the model *)
MaxRows == 4
MaxCols == 4
MaxApprox == 2
MaxNumber == 2

----------------------------------------------------------------------------
(* Exact arithmetic standing for the float operations of the source *)

RECURSIVE Gcd(_, _)
Gcd(a, b) == IF b = 0 THEN a ELSE Gcd(b, a % b)

Abs(n) == IF n < 0 THEN -n ELSE n

Rat(n, d) == LET g == Gcd(Abs(n), d) IN <<n \div g, d \div g>>

Zero == <<0, 1>>
One == <<1, 1>>

RAdd(x, y) ==
    LET g == Gcd(x[2], y[2])
        l == (x[2] \div g) * y[2]
    IN  Rat(x[1] * (l \div x[2]) + y[1] * (l \div y[2]), l)

RSub(x, y) == RAdd(x, <<-y[1], y[2]>>)

RMul(x, y) ==
    LET g1 == Gcd(Abs(x[1]), y[2])
        g2 == Gcd(Abs(y[1]), x[2])
    IN  Rat((x[1] \div g1) * (y[1] \div g2), (x[2] \div g2) * (y[2] \div g1))

RDivInt(x, n) ==
    LET g == Gcd(Abs(x[1]), n)
    IN  Rat(x[1] \div g, x[2] * (n \div g))

RLt(x, y) == RSub(x, y)[1] < 0
RLe(x, y) == RSub(x, y)[1] <= 0

----------------------------------------------------------------------------
(* Configuration (module-level names of the source) *)

SaveEvery == 100
None == [is_none |-> TRUE]
NoIndex == -1

DIMENSION == conf.DIMENSION
APPROXIMATION == conf.APPROXIMATION
ALPHA == conf.ALPHA
BETA == conf.BETA
THETA == conf.THETA
GAMMA == conf.GAMMA
MU == conf.MU
KAPPA == conf.KAPPA
RHO == conf.RHO

DEFAULT_CELL == [is_in_crystal |-> FALSE, b |-> Zero, c |-> Zero, d |-> RHO, i |-> NoIndex]

Coords(dim) == (0 .. dim[1] - 1) \X (0 .. dim[2] - 1)

----------------------------------------------------------------------------
(* Topology *)

\* generate_neighbours using the even-row pattern on every row
generate_neighbours_NoParity(coordinates) ==
    LET x == coordinates[2]
        y == coordinates[1]
    IN  << <<y, x-1>>, <<y-1, x-1>>, <<y-1, x>>, <<y, x+1>>, <<y+1, x>>, <<y+1, x-1>> >>

generate_neighbours(coordinates) ==
    LET x == coordinates[2]
        y == coordinates[1]
    IN  IF y % 2 = 0
        THEN << <<y, x-1>>, <<y-1, x-1>>, <<y-1, x>>, <<y, x+1>>, <<y+1, x>>, <<y+1, x-1>> >>
        ELSE << <<y, x-1>>, <<y-1, x>>, <<y-1, x+1>>, <<y, x+1>>, <<y+1, x+1>>, <<y+1, x>> >>

\* list.pop(list.index(v)): drop the first element equal to v
RECURSIVE PopFirst(_, _)
PopFirst(list, v) ==
    IF list = <<>> THEN <<>>
    ELSE IF Head(list) = v THEN Tail(list)
    ELSE <<Head(list)>> \o PopFirst(Tail(list), v)

\* OutOfRange accepting the index dim[k] itself
OutOfRange_PastEnd(neighbour, dim) ==
    \E k \in 1..2 : neighbour[k] < 0 \/ neighbour[k] > dim[k]

OutOfRange(neighbour, dim) ==
    \E k \in 1..2 : neighbour[k] < 0 \/ neighbour[k] > dim[k] - 1

RECURSIVE FilterNeighbours(_, _, _)
FilterNeighbours(snapshot, list_neighbours, dim) ==
    IF snapshot = <<>> THEN list_neighbours
    ELSE FilterNeighbours(Tail(snapshot),
                          IF OutOfRange(Head(snapshot), dim)
                          THEN PopFirst(list_neighbours, Head(snapshot))
                          ELSE list_neighbours,
                          dim)

get_neighbours(coordinates, dim) ==
    LET list_neighbours == generate_neighbours(coordinates)
    IN  FilterNeighbours(list_neighbours, list_neighbours, dim)

\* the NEIGHBOURS cache built for DIMENSION at module load
NEIGHBOURS(coord) == get_neighbours(coord, DIMENSION)

Range(seq) == {seq[k] : k \in 1..Len(seq)}

\* position of coord in row-major order, the order of the NEIGHBOURS keys
RowMajor(coord) == coord[1] * DIMENSION[2] + coord[2]

\* cells of rows [y0, y1) and columns [x0, x1), rows outermost (the nested range loops)
CellsOf(y0, y1, x0, x1) ==
    LET h == IF y1 > y0 THEN y1 - y0 ELSE 0
        w == IF x1 > x0 THEN x1 - x0 ELSE 0
    IN  [k \in 1 .. (h * w) |-> <<y0 + ((k - 1) \div w), x0 + ((k - 1) % w)>>]

Max(a, b) == IF a >= b THEN a ELSE b
Min(a, b) == IF a <= b THEN a ELSE b

----------------------------------------------------------------------------
(* Setup *)

\* Python's -1 given for "no position"
NoPosition == <<-1>>

Centre(dim) == <<dim[1] \div 2, dim[2] \div 2>>

SeedCell == [is_in_crystal |-> TRUE, b |-> Zero, c |-> One, d |-> Zero, i |-> 0]

\* list index with Python's wrap of negative indexes; -1 stands for IndexError
PyIndex(k, n) == IF 0 <= k /\ k < n THEN k ELSE IF -n <= k /\ k < 0 THEN k + n ELSE -1

create_plate_raises(dim, initial_position) ==
    LET pos == IF initial_position = NoPosition THEN Centre(dim) ELSE initial_position
    IN  \/ dim[1] <= 0
        \/ PyIndex(pos[1], dim[1]) = -1
        \/ PyIndex(pos[2], dim[2]) = -1

create_plate(dim, initial_position) ==
    LET pos == IF initial_position = NoPosition THEN Centre(dim) ELSE initial_position
        at == <<PyIndex(pos[1], dim[1]), PyIndex(pos[2], dim[2])>>
    IN  [p \in Coords(dim) |-> IF p = at THEN SeedCell ELSE DEFAULT_CELL]

----------------------------------------------------------------------------
(* Dynamics *)

\* the loop of diffusion_cell over the neighbours, from the k-th on
RECURSIVE SteamSum(_, _, _, _, _)
SteamSum(neigh, k, steam, cell, plate_in) ==
    IF k > Len(neigh) THEN steam
    ELSE SteamSum(neigh, k + 1,
                  IF plate_in[neigh[k]].is_in_crystal
                  THEN RAdd(steam, cell.d)
                  ELSE RAdd(steam, plate_in[neigh[k]].d),
                  cell, plate_in)

\* changes_to_make after diffusion_cell(y, x, cell, changes_to_make, plate_in)
diffusion_cell(coord, cell, changes, plate_in) ==
    IF cell.is_in_crystal = FALSE
    THEN LET neigh == NEIGHBOURS(coord)
         IN  (coord :> RDivInt(SteamSum(neigh, 1, cell.d, cell, plate_in), 1 + Len(neigh))) @@ changes
    ELSE changes

\* the cells diffusion visits, in visiting order
DiffusionCells(pos, maxp, approximation) ==
    IF approximation = 0
    THEN CellsOf(0, DIMENSION[1], 0, DIMENSION[2])
    ELSE CellsOf(Max(0, pos[1] - approximation - maxp),
                 Min(DIMENSION[1], pos[1] + approximation + maxp),
                 Max(0, pos[2] - approximation - maxp),
                 Min(DIMENSION[2], pos[2] + approximation + maxp))

RECURSIVE DiffusionLoop(_, _, _, _)
DiffusionLoop(cells, k, changes, plate_in) ==
    IF k > Len(cells) THEN changes
    ELSE DiffusionLoop(cells, k + 1,
                       diffusion_cell(cells[k], plate_in[cells[k]], changes, plate_in),
                       plate_in)

\* lines 170-171: the recorded changes are written
ApplyChanges(plate_in, changes) ==
    [p \in DOMAIN plate_in |->
        IF p \in DOMAIN changes THEN [plate_in[p] EXCEPT !.d = changes[p]] ELSE plate_in[p]]

\* diffusion writing every new value at once instead of recording it
RECURSIVE InPlaceLoop(_, _, _)
InPlaceLoop(cells, k, plate_in) ==
    IF k > Len(cells) THEN plate_in
    ELSE InPlaceLoop(cells, k + 1,
                     ApplyChanges(plate_in,
                                  diffusion_cell(cells[k], plate_in[cells[k]], <<>>, plate_in)))

diffusion_InPlace(plate_in, pos, maxp, approximation) ==
    InPlaceLoop(DiffusionCells(pos, maxp, approximation), 1, plate_in)

diffusion(plate_in, pos, maxp, approximation) ==
    ApplyChanges(plate_in,
                 DiffusionLoop(DiffusionCells(pos, maxp, approximation), 1, <<>>, plate_in))

\* freezing turning all the steam into liquid
freezing_AllLiquid(cell, k) ==
    [cell EXCEPT !.b = RAdd(cell.b, cell.d), !.d = Zero]

freezing(cell, k) ==
    [cell EXCEPT !.b = RAdd(cell.b, RMul(RSub(One, k), cell.d)),
                 !.c = RAdd(cell.c, RMul(k, cell.d)),
                 !.d = Zero]

\* the neighbours dict of attachment: a sequence of the neighbour cells
RECURSIVE CountCrystal(_, _)
CountCrystal(neigh, k) ==
    IF k > Len(neigh) THEN 0
    ELSE (IF neigh[k].is_in_crystal THEN 1 ELSE 0) + CountCrystal(neigh, k + 1)

RECURSIVE CrystalSteam(_, _)
CrystalSteam(neigh, k) ==
    IF k > Len(neigh) THEN Zero
    ELSE RAdd(IF neigh[k].is_in_crystal THEN neigh[k].d ELSE Zero, CrystalSteam(neigh, k + 1))

\* attachment_test with >= in place of > for beta
attachment_test_BetaInclusive(cell, neigh, alpha, beta, theta) ==
    LET cristal_neighbours == CountCrystal(neigh, 1)
        test_with_theta == CrystalSteam(neigh, 1)
    IN  \/ cristal_neighbours \in {1, 2} /\ RLe(beta, cell.b)
        \/ cristal_neighbours = 3 /\ (\/ RLe(One, cell.b)
                                      \/ RLt(test_with_theta, theta) /\ RLe(alpha, cell.b))
        \/ cristal_neighbours > 3

attachment_test(cell, neigh, alpha, beta, theta) ==
    LET cristal_neighbours == CountCrystal(neigh, 1)
        test_with_theta == CrystalSteam(neigh, 1)
    IN  \/ cristal_neighbours \in {1, 2} /\ RLt(beta, cell.b)
        \/ cristal_neighbours = 3 /\ (\/ RLe(One, cell.b)
                                      \/ RLt(test_with_theta, theta) /\ RLe(alpha, cell.b))
        \/ cristal_neighbours > 3

attachment(cell, neigh, ind, alpha, beta, theta) ==
    IF attachment_test(cell, neigh, alpha, beta, theta)
    THEN [cell EXCEPT !.c = RAdd(cell.c, cell.b), !.b = Zero, !.d = Zero,
                      !.is_in_crystal = TRUE, !.i = ind]
    ELSE None

\* melting that computes the steam from the liquid already reduced
melting_LiquidFirst(cell, mu, gamma) ==
    LET b1 == RMul(RSub(One, mu), cell.b)
    IN  [cell EXCEPT !.d = RAdd(cell.d, RAdd(RMul(mu, b1), RMul(gamma, cell.c))),
                     !.b = b1,
                     !.c = RMul(RSub(One, gamma), cell.c)]

melting(cell, mu, gamma) ==
    [cell EXCEPT !.d = RAdd(cell.d, RAdd(RMul(mu, cell.b), RMul(gamma, cell.c))),
                 !.b = RMul(RSub(One, mu), cell.b),
                 !.c = RMul(RSub(One, gamma), cell.c)]

----------------------------------------------------------------------------
(* The frontier loop and the commit of model_snowflake *)

\* position of coord in column-major order
ColMajor(coord) == coord[2] * DIMENSION[1] + coord[1]

OrderKey(coord, major) == IF major = "row" THEN RowMajor(coord) ELSE ColMajor(coord)

RECURSIVE Ascending(_, _)
Ascending(S, major) ==
    IF S = {} THEN <<>>
    ELSE LET first == CHOOSE p \in S : \A q \in S : OrderKey(p, major) <= OrderKey(q, major)
         IN  <<first>> \o Ascending(S \ {first}, major)

Reverse(seq) == [k \in 1..Len(seq) |-> seq[Len(seq) + 1 - k]]

\* a set's iteration order is not specified: the loop visits the frontier in
\* ascending or descending row-major or column-major order
IterationOrders(S) ==
    {Ascending(S, "row"), Reverse(Ascending(S, "row")),
     Ascending(S, "col"), Reverse(Ascending(S, "col"))}

\* the neighbours dict handed to attachment, in NEIGHBOURS order
NeighbourCells(plate_in, cell) ==
    LET neigh == NEIGHBOURS(cell) IN [k \in 1..Len(neigh) |-> plate_in[neigh[k]]]

\* border_cell writing an attached cell into the plate at once instead of staging it only
border_cell_WriteThrough(plate_in, changes, cell, ind) ==
    LET frozen == freezing(plate_in[cell], KAPPA)
        plate1 == [plate_in EXCEPT ![cell] = frozen]
        staged == attachment(frozen, NeighbourCells(plate1, cell), ind, ALPHA, BETA, THETA)
    IN  [plate |-> [plate_in EXCEPT ![cell] = IF staged # None THEN staged
                                              ELSE melting(frozen, MU, GAMMA)],
         changes_to_make |-> IF staged # None
                             THEN Append(changes, <<cell, staged>>)
                             ELSE changes]

\* the body of `for cell in cells_at_border`: freezing and melting act on the
\* cell of the plate itself, attachment returns a copy that is staged
border_cell(plate_in, changes, cell, ind) ==
    LET frozen == freezing(plate_in[cell], KAPPA)
        plate1 == [plate_in EXCEPT ![cell] = frozen]
        staged == attachment(frozen, NeighbourCells(plate1, cell), ind, ALPHA, BETA, THETA)
    IN  [plate |-> [plate_in EXCEPT ![cell] = melting(frozen, MU, GAMMA)],
         changes_to_make |-> IF staged # None
                             THEN Append(changes, <<cell, staged>>)
                             ELSE changes]

StagedCoords(changes) == {changes[k][1] : k \in 1..Len(changes)}

\* AddNeighbours without the test that the neighbour is outside the crystal
RECURSIVE AddNeighbours_AnyCell(_, _, _, _, _)
AddNeighbours_AnyCell(neigh, k, border, plate_in, changes) ==
    IF k > Len(neigh) THEN border
    ELSE AddNeighbours_AnyCell(neigh, k + 1,
                               IF neigh[k] \notin StagedCoords(changes)
                               THEN border \cup {neigh[k]}
                               ELSE border,
                               plate_in, changes)

\* the frontier after the inner loop over the neighbours of a committed coord
RECURSIVE AddNeighbours(_, _, _, _, _)
AddNeighbours(neigh, k, border, plate_in, changes) ==
    IF k > Len(neigh) THEN border
    ELSE AddNeighbours(neigh, k + 1,
                       IF plate_in[neigh[k]].is_in_crystal = FALSE
                          /\ neigh[k] \notin StagedCoords(changes)
                       THEN border \cup {neigh[k]}
                       ELSE border,
                       plate_in, changes)

\* CommitOne with max_point taken from the committed coord alone
CommitOne_NoMax(st, entry, changes) ==
    LET coord == entry[1]
        plate1 == [st.plate EXCEPT ![coord] = entry[2]]
    IN  [plate |-> plate1,
         max_point |-> Max(Abs(init_pos[1] - coord[1]), Abs(init_pos[2] - coord[2])),
         cells_at_border |->
             AddNeighbours(NEIGHBOURS(coord), 1, st.cells_at_border, plate1, changes) \ {coord}]

\* one round of `for coord, di in changes_to_make.items()`
CommitOne(st, entry, changes) ==
    LET coord == entry[1]
        plate1 == [st.plate EXCEPT ![coord] = entry[2]]
    IN  [plate |-> plate1,
         max_point |-> Max(Max(Abs(init_pos[1] - coord[1]), Abs(init_pos[2] - coord[2])),
                           st.max_point),
         cells_at_border |->
             AddNeighbours(NEIGHBOURS(coord), 1, st.cells_at_border, plate1, changes) \ {coord}]

RECURSIVE CommitLoop(_, _, _)
CommitLoop(changes, k, st) ==
    IF k > Len(changes) THEN st
    ELSE CommitLoop(changes, k + 1, CommitOne(st, changes[k], changes))

----------------------------------------------------------------------------
(* Inputs *)

Half == <<1, 2>>

DefaultProfile ==
    [ALPHA |-> <<7, 10>>, BETA |-> <<3, 5>>, THETA |-> <<7, 10>>, GAMMA |-> Half,
     MU |-> Half, KAPPA |-> <<3, 5>>, RHO |-> <<11, 10>>]

Profiles ==
    { DefaultProfile,
      [ALPHA |-> Half, BETA |-> Half, THETA |-> Half, GAMMA |-> Half,
       MU |-> Half, KAPPA |-> Zero, RHO |-> One],
      [ALPHA |-> Half, BETA |-> Half, THETA |-> Half, GAMMA |-> Half,
       MU |-> Zero, KAPPA |-> Zero, RHO |-> One],
      [ALPHA |-> Half, BETA |-> Half, THETA |-> Half, GAMMA |-> Zero,
       MU |-> Half, KAPPA |-> Half, RHO |-> One] }

Dimensions == {<<MaxRows, MaxCols>>, <<MaxRows - 1, MaxCols - 1>>}

\* the 5 x 5 lattice with steam 1 everywhere but the seed, approximation 0 and
\* the coefficients of the source
ScenarioDimension == <<5, 5>>

ScenarioConf ==
    [DIMENSION |-> ScenarioDimension, APPROXIMATION |-> 0] @@ [DefaultProfile EXCEPT !.RHO = One]

\* coefficients under which an iteration leaves the lattice as it found it:
\* all steam freezes to liquid, nothing attaches with one crystal neighbour,
\* all liquid melts back
StaticProfile ==
    [ALPHA |-> One, BETA |-> One, THETA |-> One, GAMMA |-> Zero,
     MU |-> One, KAPPA |-> Zero, RHO |-> One]

StaticConf == [DIMENSION |-> <<MaxRows - 1, MaxCols - 1>>, APPROXIMATION |-> 0] @@ StaticProfile

\* a coefficient outside [0, 1]
MalformedConf ==
    [DIMENSION |-> <<MaxRows - 1, MaxCols - 1>>, APPROXIMATION |-> 0]
        @@ [StaticProfile EXCEPT !.KAPPA = <<3, 2>>]

\* a lattice without rows and columns
EmptyConf == [DIMENSION |-> <<0, 0>>, APPROXIMATION |-> 0] @@ DefaultProfile

Confs ==
    {[DIMENSION |-> dm, APPROXIMATION |-> a] @@ pr :
        dm \in Dimensions, a \in 0..MaxApprox, pr \in Profiles}
    \cup {ScenarioConf, StaticConf, MalformedConf, EmptyConf}

\* iteration counts around the period of savestates
LongNumbers == {SaveEvery, SaveEvery + 1, 2 * SaveEvery + 1}

\* seeds given to model_snowflake: within one row and column of the centre,
\* the corner (0, 0), and two coordinates outside the lattice
SeedsGiven(dm) ==
    {p \in Coords(dm) : Abs(p[1] - Centre(dm)[1]) <= 1 /\ Abs(p[2] - Centre(dm)[2]) <= 1}
    \cup {<<0, 0>>, <<-1, 0>>, <<dm[1], 0>>}

ArgsOf(cf) ==
    {[number |-> n, dim |-> dm, init_pos |-> NoPosition] :
        n \in 1..MaxNumber, dm \in {cf.DIMENSION, <<1, 1>>}}
    \cup {[number |-> n, dim |-> cf.DIMENSION, init_pos |-> p] :
        n \in 1..MaxNumber, p \in SeedsGiven(cf.DIMENSION)}
    \cup {[number |-> n, dim |-> cf.DIMENSION, init_pos |-> NoPosition] :
        n \in IF cf = StaticConf THEN LongNumbers ELSE {}}

----------------------------------------------------------------------------
(* model_snowflake *)

Init ==
    /\ conf \in Confs
    /\ args \in ArgsOf(conf)
    /\ pc = "setup"
    /\ plate = <<>>
    /\ init_pos = args.init_pos
    /\ cells_at_border = {}
    /\ max_point = 0
    /\ i = 0
    /\ changes_to_make = <<>>
    /\ todo = <<>>
    /\ saved = <<>>
    /\ di = None
    /\ neighbours = <<>>
    /\ new_cell = None
    /\ result = NoResult

\* lines 344-356: create_plate(), the frontier of init_pos, max_point
Setup ==
    /\ pc = "setup"
    /\ LET pos == IF args.init_pos = NoPosition THEN Centre(args.dim) ELSE args.init_pos
       IN  /\ init_pos' = pos
           /\ IF create_plate_raises(DIMENSION, NoPosition)
              THEN /\ pc' = "error"
                   /\ UNCHANGED <<plate, cells_at_border>>
              ELSE /\ plate' = create_plate(DIMENSION, NoPosition)
                   /\ IF pos \in Coords(DIMENSION)
                      THEN /\ cells_at_border' = Range(NEIGHBOURS(pos))
                           /\ pc' = "diffusion"
                      ELSE /\ pc' = "error"      \* KeyError of NEIGHBOURS[...]
                           /\ UNCHANGED cells_at_border
    /\ max_point' = 0
    /\ i' = 0
    /\ UNCHANGED <<conf, args, changes_to_make, todo, saved, di, neighbours, new_cell, result>>

\* lines 358-361: the diffusion phase, then the loop over the frontier starts
Diffusion ==
    /\ pc = "diffusion"
    /\ plate' = diffusion(plate, init_pos, max_point, APPROXIMATION)
    /\ changes_to_make' = <<>>
    /\ todo' \in IterationOrders(cells_at_border)
    /\ pc' = "border"
    /\ UNCHANGED <<conf, args, init_pos, cells_at_border, max_point, i, saved,
                   di, neighbours, new_cell, result>>

\* lines 361-376: one round of the loop over the frontier
BorderCell ==
    /\ pc = "border"
    /\ todo # <<>>
    /\ LET st == border_cell(plate, changes_to_make, Head(todo), i)
       IN  /\ changes_to_make' = st.changes_to_make
           /\ plate' = st.plate
    /\ todo' = Tail(todo)
    /\ UNCHANGED <<conf, args, pc, init_pos, cells_at_border, max_point, i, saved,
                   di, neighbours, new_cell, result>>

\* lines 381-393: the staged cells are written and the frontier is updated
Commit ==
    /\ pc = "border"
    /\ todo = <<>>
    /\ LET st == CommitLoop(changes_to_make, 1,
                            [plate |-> plate, max_point |-> max_point,
                             cells_at_border |-> cells_at_border])
       IN  /\ plate' = st.plate
           /\ max_point' = st.max_point
           /\ cells_at_border' = st.cells_at_border
    /\ pc' = "cadence"
    /\ UNCHANGED <<conf, args, init_pos, i, changes_to_make, todo, saved,
                   di, neighbours, new_cell, result>>

\* Cadence calling savestates in every iteration
Cadence_EveryIteration ==
    /\ pc = "cadence"
    /\ saved' = Append(saved, i)
    /\ IF i + 1 < args.number
       THEN i' = i + 1 /\ pc' = "diffusion"
       ELSE i' = i /\ pc' = "final"
    /\ UNCHANGED <<conf, args, plate, init_pos, cells_at_border, max_point,
                   changes_to_make, todo, di, neighbours, new_cell, result>>

\* Cadence running the loop once more than number
Cadence_OneMore ==
    /\ pc = "cadence"
    /\ saved' = IF i % SaveEvery = 0 THEN Append(saved, i) ELSE saved
    /\ IF i + 1 <= args.number
       THEN i' = i + 1 /\ pc' = "diffusion"
       ELSE i' = i /\ pc' = "final"
    /\ UNCHANGED <<conf, args, plate, init_pos, cells_at_border, max_point,
                   changes_to_make, todo, di, neighbours, new_cell, result>>

\* lines 397-399 and the loop header: the periodic snapshot, then the next round
Cadence ==
    /\ pc = "cadence"
    /\ saved' = IF i % SaveEvery = 0 THEN Append(saved, i) ELSE saved
    /\ IF i + 1 < args.number
       THEN i' = i + 1 /\ pc' = "diffusion"
       ELSE i' = i /\ pc' = "final"
    /\ UNCHANGED <<conf, args, plate, init_pos, cells_at_border, max_point,
                   changes_to_make, todo, di, neighbours, new_cell, result>>

\* line 400: the snapshot after the loop
FinalSave ==
    /\ pc = "final"
    /\ saved' = Append(saved, i)
    /\ pc' = "done"
    /\ UNCHANGED <<conf, args, plate, init_pos, cells_at_border, max_point, i,
                   changes_to_make, todo, di, neighbours, new_cell, result>>

Next == Setup \/ Diffusion \/ BorderCell \/ Commit \/ Cadence \/ FinalSave

Spec == Init /\ [][Next]_vars

\* the call has neither returned nor raised
Running == pc \notin {"done", "error"}

Phases == {"setup", "diffusion", "border", "cadence", "final", "done", "error"}

\* a statement that moves the position of the call: every step of Setup,
\* Diffusion, Commit, Cadence and FinalSave is one, and one is possible exactly
\* when one of these is
Move ==
    /\ Running
    /\ pc = "border" => todo = <<>>
    /\ pc' \in Phases

\* the loop over the frontier goes to its next cell: every step of BorderCell
\* is one, and one is possible exactly when BorderCell is
Visit ==
    /\ pc = "border"
    /\ todo # <<>>
    /\ todo' = Tail(todo)

\* model_snowflake is one sequential call: as long as a statement is left, the next one runs
FairSpec == Spec /\ WF_pc(Move) /\ WF_todo(Visit)

----------------------------------------------------------------------------
(* freezing, attachment and melting called on one cell *)

HexDegree == 6

Unit == {Zero, Half, One}

CellConfs ==
    {[DIMENSION |-> <<1, 1>>, APPROXIMATION |-> 0, RHO |-> One,
      KAPPA |-> k, MU |-> m, GAMMA |-> g,
      ALPHA |-> t.ALPHA, BETA |-> t.BETA, THETA |-> t.THETA] :
        k \in Unit, m \in Unit, g \in Unit, t \in {DefaultProfile, [DefaultProfile EXCEPT !.BETA = Half,
                                                     !.ALPHA = Half, !.THETA = Half]}}

CellsGiven ==
    {[is_in_crystal |-> FALSE, b |-> b, c |-> c, d |-> d, i |-> NoIndex] :
        b \in {Zero, Half, <<3, 5>>, <<7, 10>>, One}, c \in {Zero, One}, d \in {Zero, Half}}

\* n0 crystal neighbours without steam, n1 crystal neighbours with steam 1/2,
\* the other neighbours outside the crystal
NeighboursGiven ==
    {[k \in 1..HexDegree |->
        IF k <= n0 THEN SeedCell
        ELSE IF k <= n0 + n1 THEN [SeedCell EXCEPT !.d = Half]
        ELSE [is_in_crystal |-> FALSE, b |-> Zero, c |-> Zero, d |-> One, i |-> NoIndex]] :
        n0 \in 0..HexDegree, n1 \in 0..2} 

InitCell ==
    /\ conf \in CellConfs
    /\ args \in {[di |-> c, neighbours |-> n, ind |-> 1] : c \in CellsGiven, n \in NeighboursGiven}
    /\ pc = "cell"
    /\ di = args.di
    /\ neighbours = args.neighbours
    /\ new_cell = None
    /\ result = NoResult
    /\ plate = <<>>
    /\ init_pos = NoPosition
    /\ cells_at_border = {}
    /\ max_point = 0
    /\ i = 0
    /\ changes_to_make = <<>>
    /\ todo = <<>>
    /\ saved = <<>>

\* line 365
Freezing ==
    /\ pc = "cell"
    /\ di' = freezing(di, KAPPA)
    /\ pc' = "frozen"
    /\ UNCHANGED <<conf, args, neighbours, new_cell, result, runVars>>

\* line 371
Attachment ==
    /\ pc = "frozen"
    /\ new_cell' = attachment(di, neighbours, args.ind, ALPHA, BETA, THETA)
    /\ pc' = "tested"
    /\ UNCHANGED <<conf, args, di, neighbours, result, runVars>>

\* line 376
Melting ==
    /\ pc = "tested"
    /\ di' = melting(di, MU, GAMMA)
    /\ pc' = "melted"
    /\ UNCHANGED <<conf, args, neighbours, new_cell, result, runVars>>

NextCell == Freezing \/ Attachment \/ Melting

SpecCell == InitCell /\ [][NextCell]_vars

----------------------------------------------------------------------------
(* is_border_correct called on a lattice and a frontier set *)

\* lines 280-283 and 293-296: some neighbour of coord is in the crystal
has_neighbour(plate_in, coord) ==
    \E k \in 1..Len(NEIGHBOURS(coord)) : plate_in[NEIGHBOURS(coord)[k]].is_in_crystal

\* the body of the loop of is_border_correct returns False at coord
ReturnsFalse(plate_in, border, coord) ==
    IF coord \in border
    THEN ~has_neighbour(plate_in, coord)
    ELSE IF plate_in[coord].is_in_crystal
         THEN coord \in border
         ELSE has_neighbour(plate_in, coord)

RECURSIVE BorderCorrectLoop(_, _, _, _)
BorderCorrectLoop(cells, k, plate_in, border) ==
    IF k > Len(cells) THEN TRUE
    ELSE IF ReturnsFalse(plate_in, border, cells[k]) THEN FALSE
    ELSE BorderCorrectLoop(cells, k + 1, plate_in, border)

is_border_correct(plate_in, border) ==
    BorderCorrectLoop(CellsOf(0, DIMENSION[1], 0, DIMENSION[2]), 1, plate_in, border)

BorderDimension == <<2, 3>>

\* every lattice of crystal and fresh cells, with every set of coordinates
InitBorder ==
    /\ conf = [DIMENSION |-> BorderDimension, APPROXIMATION |-> 0] @@ DefaultProfile
    /\ args \in {[crystal |-> cr, cells_at_border |-> bd] :
                    cr \in SUBSET Coords(BorderDimension), bd \in SUBSET Coords(BorderDimension)}
    /\ pc = "given"
    /\ plate = [p \in Coords(BorderDimension) |->
                   IF p \in args.crystal THEN SeedCell ELSE DEFAULT_CELL]
    /\ cells_at_border = args.cells_at_border
    /\ result = NoResult
    /\ di = None
    /\ neighbours = <<>>
    /\ new_cell = None
    /\ init_pos = NoPosition
    /\ max_point = 0
    /\ i = 0
    /\ changes_to_make = <<>>
    /\ todo = <<>>
    /\ saved = <<>>

IsBorderCorrect ==
    /\ pc = "given"
    /\ result' = is_border_correct(plate, cells_at_border)
    /\ pc' = "answered"
    /\ UNCHANGED <<conf, args, cellVars, runVars>>

NextBorder == IsBorderCorrect

SpecBorder == InitBorder /\ [][NextBorder]_vars

----------------------------------------------------------------------------
(* The NEIGHBOURS cache filled by get_neighbours, for two coordinates *)

TopologyDimensions == (1 .. MaxRows) \X (1 .. MaxCols)

InitTopology ==
    /\ conf \in {[DIMENSION |-> dm, APPROXIMATION |-> 0] @@ DefaultProfile :
                    dm \in TopologyDimensions}
    /\ args \in {[coordinates |-> p, other |-> q] : p \in Coords(DIMENSION), q \in Coords(DIMENSION)}
    /\ pc = "loading"
    /\ result = <<>>
    /\ di = None
    /\ neighbours = <<>>
    /\ new_cell = None
    /\ plate = <<>>
    /\ init_pos = NoPosition
    /\ cells_at_border = {}
    /\ max_point = 0
    /\ i = 0
    /\ changes_to_make = <<>>
    /\ todo = <<>>
    /\ saved = <<>>

\* line 409: NEIGHBOURS[(i, j)] = get_neighbours((i, j))
GetNeighbours ==
    /\ pc = "loading"
    /\ \E coord \in {args.coordinates, args.other} \ DOMAIN result :
          result' = (coord :> get_neighbours(coord, DIMENSION)) @@ result
    /\ pc' = IF {args.coordinates, args.other} \subseteq DOMAIN result' THEN "loaded" ELSE "loading"
    /\ UNCHANGED <<conf, args, cellVars, runVars>>

NextTopology == GetNeighbours

SpecTopology == InitTopology /\ [][NextTopology]_vars

----------------------------------------------------------------------------
(* Properties *)

Lattice == DOMAIN plate

InCrystal(p) == plate[p].is_in_crystal

HasCrystalNeighbour(p) == \E q \in Range(NEIGHBOURS(p)) : InCrystal(q)

SeedAtCentre == init_pos = Centre(DIMENSION)

AfterCommitOrInitial == pc \in {"diffusion", "cadence", "final", "done"}

\* C1: with the seed at the lattice centre, initially and after every commit
\* a coordinate is in cells_at_border exactly when its cell is not in the
\* crystal and has a neighbour in the crystal
C1_FrontierExact ==
    (SeedAtCentre /\ AfterCommitOrInitial) =>
        \A p \in Lattice :
            p \in cells_at_border <=> (~InCrystal(p) /\ HasCrystalNeighbour(p))

\* a commit has attached some cells around a centre seed and left others on the frontier
C1_Witness ==
    /\ SeedAtCentre
    /\ pc = "cadence"
    /\ changes_to_make # <<>>
    /\ \E p \in cells_at_border : plate[p].b # Zero
    /\ \E p \in cells_at_border : plate[p].b = Zero

\* C2: no step takes a cell out of the crystal, and no step lowers max_point
C2_Growth ==
    [][/\ \A p \in Lattice : InCrystal(p) => plate'[p].is_in_crystal
       /\ max_point' >= max_point]_vars

\* the crystal has grown in two successive iterations
C2_Witness ==
    /\ pc = "cadence"
    /\ i = 1
    /\ changes_to_make # <<>>
    /\ \E p \in Lattice : InCrystal(p) /\ plate[p].i = 0 /\ p # Centre(DIMENSION)
    /\ max_point >= 1

\* C3: every crystal cell has liquid b = 0 and steam d = 0, and no step
\* changes any field of a cell that is in the crystal
C3_CrystalCellsFixed ==
    [][/\ \A p \in DOMAIN plate' :
            plate'[p].is_in_crystal => (plate'[p].b = Zero /\ plate'[p].d = Zero)
       /\ \A p \in Lattice : InCrystal(p) => plate'[p] = plate[p]]_vars

\* the whole loop over the frontier, visiting it in the given order
RECURSIVE BorderLoop(_, _, _)
BorderLoop(order, k, st) ==
    IF k > Len(order) THEN st
    ELSE BorderLoop(order, k + 1,
                    border_cell(st.plate, st.changes_to_make, order[k], i))

\* staged coordinates, lattice and frontier after one pass and its commit,
\* from the current lattice and frontier
PassOutcome(order) ==
    LET pass == BorderLoop(order, 1, [plate |-> plate, changes_to_make |-> <<>>])
        st == CommitLoop(pass.changes_to_make, 1,
                         [plate |-> pass.plate, max_point |-> max_point,
                          cells_at_border |-> cells_at_border])
    IN  [staged |-> StagedCoords(pass.changes_to_make),
         plate |-> st.plate,
         cells_at_border |-> st.cells_at_border]

PassStart == pc = "border" /\ Len(todo) = Cardinality(cells_at_border) /\ changes_to_make = <<>>

\* C4: from the lattice after diffusion and the frontier, every visiting order
\* stages the same coordinates and commits to the same lattice and frontier
C4_OrderIndependent ==
    PassStart =>
        \A order \in IterationOrders(cells_at_border) :
            PassOutcome(order) = PassOutcome(todo)

\* sum of f over a finite set of coordinates
RECURSIVE SumOver(_, _)
SumOver(S, f) ==
    IF S = {} THEN Zero
    ELSE LET q == CHOOSE q \in S : TRUE IN RAdd(f[q], SumOver(S \ {q}, f))

NeighbourSet(p) == Range(NEIGHBOURS(p))

\* the mean of diffusion for cell p, from the steam values of the current lattice
SteamMean(p) ==
    LET share == [q \in NeighbourSet(p) |-> IF InCrystal(q) THEN plate[p].d ELSE plate[q].d]
    IN  RDivInt(RAdd(plate[p].d, SumOver(NeighbourSet(p), share)),
                1 + Cardinality(NeighbourSet(p)))

DiffusionStep == pc = "diffusion" /\ pc' = "border"

\* C5: with approximation = 0 a diffusion gives every non-crystal cell the mean
\* of its own steam and its neighbours' shares, all read from the lattice before
\* the call, leaves everything else as it was, and the reverse visiting order
\* gives the same lattice
C5_DiffusionFromSnapshot ==
    [][(DiffusionStep /\ APPROXIMATION = 0) =>
        /\ \A p \in Lattice :
              plate'[p] = IF InCrystal(p) THEN plate[p]
                          ELSE [plate[p] EXCEPT !.d = SteamMean(p)]
        /\ plate' = ApplyChanges(plate,
                        DiffusionLoop(Reverse(DiffusionCells(init_pos, max_point, 0)),
                                      1, <<>>, plate))]_vars

\* a full-lattice diffusion has run on a lattice whose steam was not uniform
C5_Witness ==
    /\ PassStart
    /\ APPROXIMATION = 0
    /\ i >= 1
    /\ \E p \in Lattice : InCrystal(p) /\ p # Centre(DIMENSION)
    /\ \E p, q \in Lattice :
          /\ ~InCrystal(p) /\ ~InCrystal(q) /\ q \in NeighbourSet(p)
          /\ plate[p].d # plate[q].d /\ plate[p].d # Zero /\ plate[q].d # Zero

BorderStep == pc = "border" /\ todo # <<>>

\* C6 as claimed, for a run with the seed at the lattice centre: no step of
\* the border pass writes a lattice cell
C6_BorderPassWritesNothing == [][(BorderStep /\ SeedAtCentre) => plate' = plate]_vars

\* C6 amended: a step of the border pass writes the frontier cell it visits,
\* which becomes melting(freezing(v)) and keeps is_in_crystal and i, and no
\* other cell; attached cells are staged only
C6_BorderPassWritesVisitedCell ==
    [][BorderStep =>
        \A p \in Lattice :
            plate'[p] = IF p = Head(todo)
                        THEN melting(freezing(plate[p], KAPPA), MU, GAMMA)
                        ELSE plate[p]]_vars

\* in the middle of a pass a cell is staged for attachment and its lattice
\* cell, already frozen and melted, is not in the crystal
C6_Witness ==
    /\ pc = "border"
    /\ todo # <<>>
    /\ \E k \in 1..Len(changes_to_make) :
          LET p == changes_to_make[k][1]
          IN  ~InCrystal(p) /\ plate[p].d # Zero /\ changes_to_make[k][2].is_in_crystal

\* the box of C7: rows and columns within approximation + max_point of the seed, both ends included
InBox(p) ==
    /\ init_pos[1] - APPROXIMATION - max_point <= p[1]
    /\ p[1] <= init_pos[1] + APPROXIMATION + max_point
    /\ init_pos[2] - APPROXIMATION - max_point <= p[2]
    /\ p[2] <= init_pos[2] + APPROXIMATION + max_point

\* C7 as claimed, for a run with the seed at the lattice centre: with
\* approximation > 0 a diffusion recomputes exactly the non-crystal cells of the
\* box, both ends included, and leaves the others as they were
C7_WindowInclusive ==
    [][(DiffusionStep /\ APPROXIMATION > 0 /\ SeedAtCentre) =>
        \A p \in Lattice :
            plate'[p] = IF ~InCrystal(p) /\ InBox(p)
                        THEN [plate[p] EXCEPT !.d = SteamMean(p)]
                        ELSE plate[p]]_vars

BeforeFirstIteration == pc = "diffusion" /\ i = 0

\* C10 as claimed: before the first iteration exactly one cell is in the
\* crystal, it is at init_pos (the centre of dim when no seed is given), and
\* cells_at_border is the set of its in-bounds neighbours
C10_SeedAndFrontier ==
    BeforeFirstIteration =>
        /\ {p \in Lattice : InCrystal(p)} = {init_pos}
        /\ cells_at_border = NeighbourSet(init_pos)

CrystalNeighbours == {k \in DOMAIN neighbours : neighbours[k].is_in_crystal}

CrystalNeighbourSteam == SumOver(CrystalNeighbours, [k \in DOMAIN neighbours |-> neighbours[k].d])

\* C8: attachment returns an attached cell exactly when n is 1 or 2 and
\* b > beta, or n = 3 and (b >= 1 or (s < theta and b >= alpha)), or n > 3;
\* with n = 1 and b = beta it returns None, and with n >= 4 it always attaches
C8_AttachmentRule ==
    pc = "tested" =>
        LET n == Cardinality(CrystalNeighbours)
            s == CrystalNeighbourSteam
            b == di.b
        IN  /\ (new_cell # None) <=>
                  \/ n \in {1, 2} /\ ~RLe(b, BETA)
                  \/ n = 3 /\ (~RLt(b, One) \/ (~RLe(THETA, s) /\ ~RLt(b, ALPHA)))
                  \/ n > 3
            /\ (n = 1 /\ b = BETA) => new_cell = None
            /\ n >= 4 => new_cell # None
            /\ new_cell # None => new_cell.is_in_crystal

\* attachment has refused a cell with one crystal neighbour and liquid exactly beta
C8_Witness ==
    /\ pc = "tested"
    /\ Cardinality(CrystalNeighbours) = 1
    /\ di.b = BETA
    /\ args.di.d # Zero
    /\ new_cell = None

Total(cell) == RAdd(cell.b, RAdd(cell.c, cell.d))

\* C9: freezing then melting leaves liquid + ice + steam of the cell as it was
C9_Conservation == pc = "melted" => Total(di) = Total(args.di)

\* a cell with liquid, ice and steam went through freezing and melting with
\* kappa, mu and gamma strictly between 0 and 1, and did not attach
C9_Witness ==
    /\ pc = "melted"
    /\ new_cell = None
    /\ KAPPA = Half /\ MU = Half /\ GAMMA = Half
    /\ args.di.b # Zero /\ args.di.c # Zero /\ args.di.d # Zero
    /\ di.b # args.di.b /\ di.c # args.di.c /\ di.d # args.di.d

\* the coordinates of the pattern of generate_neighbours that lie in the lattice, in the pattern's order
PatternInside(coord) ==
    SelectSeq(generate_neighbours(coord), LAMBDA n : n \in Coords(DIMENSION))

Interior(coord) ==
    /\ 0 < coord[1] /\ coord[1] < DIMENSION[1] - 1
    /\ 0 < coord[2] /\ coord[2] < DIMENSION[2] - 1

\* C11: get_neighbours returns the in-lattice coordinates of the row-parity
\* pattern, each once and in the pattern's order; an interior cell gets
\* exactly 6 neighbours and an edge or corner cell fewer than 6
C11_NeighboursClipped ==
    \A coord \in DOMAIN result :
        /\ result[coord] = PatternInside(coord)
        /\ Cardinality(Range(result[coord])) = Len(result[coord])
        /\ Interior(coord) => Len(result[coord]) = HexDegree
        /\ ~Interior(coord) => Len(result[coord]) < HexDegree

\* get_neighbours has answered for an interior cell and for a corner cell
C11_Witness ==
    /\ pc = "loaded"
    /\ Interior(args.coordinates) /\ Len(result[args.coordinates]) = HexDegree
    /\ args.other = <<DIMENSION[1] - 1, DIMENSION[2] - 1>>
    /\ Len(result[args.other]) = 2

\* C19: the clipped adjacency is symmetric and irreflexive
C19_AdjacencySymmetric ==
    \A p \in DOMAIN result :
        /\ p \notin Range(result[p])
        /\ \A q \in DOMAIN result : q \in Range(result[p]) <=> p \in Range(result[q])

\* get_neighbours has answered for two adjacent cells of different row parity, one of them on the edge
C19_Witness ==
    /\ pc = "loaded"
    /\ args.coordinates[1] % 2 # args.other[1] % 2
    /\ ~Interior(args.other)
    /\ args.other \in Range(result[args.coordinates])
    /\ args.coordinates \in Range(result[args.other])

Crystal == {p \in Lattice : InCrystal(p)}

\* C12: on the 5 x 5 lattice with the seed at (2, 2), steam 1 elsewhere,
\* approximation 0 and the coefficients of the source, after the first
\* iteration the crystal is the seed alone and the frontier is its 6 neighbours
C12_NoAttachmentFirstIteration ==
    (conf = ScenarioConf /\ SeedAtCentre /\ pc = "cadence" /\ i = 0) =>
        /\ Crystal = {Centre(ScenarioDimension)}
        /\ cells_at_border = NeighbourSet(Centre(ScenarioDimension))
        /\ Cardinality(cells_at_border) = HexDegree
        /\ changes_to_make = <<>>

\* the first iteration of that run has frozen and melted the six frontier cells
C12_Witness ==
    /\ conf = ScenarioConf /\ SeedAtCentre /\ pc = "cadence" /\ i = 0
    /\ init_pos = <<2, 2>>
    /\ \A p \in cells_at_border : plate[p].b = <<1, 5>> /\ plate[p].c = <<3, 10>>
    /\ \A p \in Lattice \ cells_at_border : plate[p].b = Zero

\* the pass of the current iteration is over and every staged cell is in the lattice and off the frontier
CommitDone ==
    /\ todo = <<>>
    /\ \A k \in 1..Len(changes_to_make) :
          /\ plate[changes_to_make[k][1]] = changes_to_make[k][2]
          /\ changes_to_make[k][1] \notin cells_at_border

\* the indexes savestates is to be called with in a run of number iterations
SnapshotIndexes == {k \in 0 .. args.number - 1 : k % SaveEvery = 0 \/ k = args.number - 1}

\* C13: savestates is called with index i exactly for the multiples of 100 and
\* for number - 1; each call comes after the commit of iteration i, leaves the
\* lattice alone, and every later lattice write belongs to a later iteration
C13_SnapshotSchedule ==
    /\ [][/\ saved' # saved =>
                /\ saved' = Append(saved, i)
                /\ i \in SnapshotIndexes
                /\ CommitDone
                /\ plate' = plate /\ cells_at_border' = cells_at_border
          /\ plate' # plate => \A k \in Range(saved) : k < i]_vars
    /\ [](pc = "done" => Range(saved) = SnapshotIndexes)

\* a run of 201 iterations has ended with the snapshots 0, 100 and 200
C13_Witness ==
    /\ pc = "done"
    /\ args.number = 2 * SaveEvery + 1
    /\ saved = <<0, SaveEvery, 2 * SaveEvery, 2 * SaveEvery>>

Coefficients == {ALPHA, BETA, THETA, MU, GAMMA, KAPPA}

\* a configuration the setup is to refuse: a dimension that is not positive, a
\* given seed outside the lattice, or a coefficient outside [0, 1]
Malformed ==
    \/ \E k \in 1..2 : DIMENSION[k] <= 0 \/ args.dim[k] <= 0
    \/ args.init_pos # NoPosition /\ args.init_pos \notin Coords(DIMENSION)
    \/ \E k \in Coefficients : RLt(k, Zero) \/ RLt(One, k)

\* C14 as claimed, for a run with the lattice's own dimension and no seed
\* given: a malformed configuration ends in an error at setup and no iteration
\* runs on it
C14_SetupRejects ==
    (Malformed /\ args.dim = DIMENSION /\ args.init_pos = NoPosition) =>
        pc \in {"setup", "error"}

\* the order of the statements of model_snowflake
PhaseOrder ==
    {<<"setup", "diffusion">>, <<"setup", "error">>, <<"diffusion", "border">>,
     <<"border", "cadence">>, <<"cadence", "diffusion">>, <<"cadence", "final">>,
     <<"final", "done">>}

\* C15: iterations 0 .. number - 1 run once each, in the order diffusion, pass
\* over the whole frontier, commit; after the last one the run reaches its end,
\* where no further step is taken
C15_ExactlyNIterations ==
    /\ [][/\ pc' # pc => <<pc, pc'>> \in PhaseOrder
          /\ pc # "done"
          /\ (pc = "diffusion" /\ pc' = "border") =>
                /\ i \in 0 .. args.number - 1
                /\ Len(todo') = Cardinality(cells_at_border) /\ Range(todo') = cells_at_border
          /\ (pc = "border" /\ pc' = "border") => (todo # <<>> /\ todo' = Tail(todo))
          /\ (pc = "border" /\ pc' = "cadence") => todo = <<>>
          /\ pc # "setup" => i' = IF pc = "cadence" /\ pc' = "diffusion" THEN i + 1 ELSE i
          /\ pc' = "final" => i = args.number - 1]_vars
    /\ (pc = "diffusion" /\ i = 0) ~> (pc = "done" /\ i = args.number - 1)

\* a run of several iterations in which the crystal grew has reached its end
C15_Witness ==
    /\ pc = "done"
    /\ args.number = MaxNumber
    /\ i = MaxNumber - 1
    /\ Cardinality(Crystal) > 1

\* the cell C16 states for frontier coordinate p after the commit of the
\* current iteration, from the lattice after diffusion
CellAfterCommit(p) ==
    LET frozen == freezing(plate[p], KAPPA)
    IN  IF attachment_test(frozen, NeighbourCells(plate, p), ALPHA, BETA, THETA)
        THEN [is_in_crystal |-> TRUE, b |-> Zero, c |-> RAdd(frozen.c, frozen.b),
              d |-> Zero, i |-> i]
        ELSE [melting(frozen, MU, GAMMA) EXCEPT !.is_in_crystal = FALSE]

\* C16: after the commit every frontier cell is either the attached cell built
\* from its frozen value, when the attachment test passed on it, or
\* melting(freezing(v)) outside the crystal
C16_AttachOrMelt ==
    PassStart => \A p \in cells_at_border : PassOutcome(todo).plate[p] = CellAfterCommit(p)

\* C18: a step of the border pass or of the commit changes no crystal cell
\* and no cell outside the frontier
C18_FrontierOnly ==
    [][pc = "border" =>
        \A p \in Lattice :
            (InCrystal(p) \/ p \notin cells_at_border) => plate'[p] = plate[p]]_vars

\* C17 as claimed: is_border_correct answers True exactly when the frontier
\* set is the set of non-crystal cells with a crystal neighbour, and answers
\* False whenever a crystal cell is in the set
C17_BorderCheckExact ==
    pc = "answered" =>
        /\ result = TRUE <=>
              \A p \in Lattice :
                  p \in cells_at_border <=> (~InCrystal(p) /\ HasCrystalNeighbour(p))
        /\ (\E p \in cells_at_border : InCrystal(p)) => result = FALSE

\* C20 as claimed, for a run with the seed at the lattice centre: with
\* approximation >= 1, when a diffusion starts every frontier coordinate is
\* among the cells that diffusion recomputes
C20_FrontierInWindow ==
    (pc = "diffusion" /\ APPROXIMATION >= 1 /\ SeedAtCentre) =>
        cells_at_border \subseteq Range(DiffusionCells(init_pos, max_point, APPROXIMATION))

====
